---- MODULE Spec2Model ----
(***************************************************************************)
(* The portfolio backend: api_backend/main.py and its two routers,         *)
(* routers/stats.py (visit and event tracking, analytics summary) and      *)
(* routers/contact.py (contact form).  The external store is modelled by   *)
(* its three tables; a store call either completes or raises.              *)
(***************************************************************************)
EXTENDS Integers, Sequences, FiniteSets, TLC

VARIABLES
    url,                  \* SUPABASE_URL as read by the routers at import
    key,                  \* SUPABASE_KEY as read by the routers at import
    environ_url,          \* os.getenv("SUPABASE_URL") as health_check reads it
    stats_supabase_cli,   \* routers/stats.py   supabase_cli ("client" or None)
    contact_supabase_cli, \* routers/contact.py supabase_cli ("client" or None)
    now,                  \* datetime.now(timezone.utc), in days
    visits,               \* store table "visits"
    events,               \* store table "events"
    contact_messages,     \* store table "contact_messages"
    resp,                 \* the response of the last request handled
    health,               \* the response of the last health request handled
    summary,              \* the locals of the get_summary request in flight
    rows,                 \* aggregation on its own: the rows a query returned
    ranked,               \* aggregation on its own: what is made of them
    parsed                \* extract_device_info on its own: a parsed user agent and its result

vars == <<url, key, environ_url, stats_supabase_cli, contact_supabase_cli, now,
          visits, events, contact_messages, resp, health, summary, rows, ranked, parsed>>

config == <<url, key, environ_url, stats_supabase_cli, contact_supabase_cli>>

----------------------------------------------------------------------------
(* Bounds of the model *)

MaxVisits == 2        \* rows the visits table may hold
MaxEvents == 1        \* rows the events table may hold
MaxContacts == 1      \* rows the contact_messages table may hold
MaxTime == 4          \* last reading of the clock
TicksPerDay == 1      \* readings of the clock in a day
MaxKeys == 11         \* distinct keys in the rows aggregated on their own
MaxRows == 3          \* rows of a free-form list of rows

----------------------------------------------------------------------------
(* Values *)

None == "<None>"           \* Python None / JSON null
Absent == "<absent>"       \* a required field the payload does not carry
Client == "client"         \* a constructed store client

Sessions == {"s1", "s2"}
Pages == {"/", "/blog"}
Referrers == {None, "", "direct", "https://g.example"}

\* user agents, as the flags user_agents.parse gives them
UserAgents ==
    { [family |-> "Chrome",           os |-> "Windows", is_mobile |-> FALSE, is_tablet |-> FALSE, is_bot |-> FALSE],
      [family |-> "Mobile Safari",    os |-> "iOS",     is_mobile |-> TRUE,  is_tablet |-> FALSE, is_bot |-> FALSE],
      [family |-> "Googlebot",        os |-> "Other",   is_mobile |-> FALSE, is_tablet |-> FALSE, is_bot |-> TRUE],
      [family |-> "Googlebot-Mobile", os |-> "Android", is_mobile |-> TRUE,  is_tablet |-> FALSE, is_bot |-> TRUE] }

\* a store insert inside a handler's try block: it completes ("ok"), it
\* raises with nothing stored ("raise"), or the row is stored and the try
\* block raises all the same ("raise_after"): execute() raises on the lost
\* reply of a committed insert, or a statement after it (logger.info, the
\* read of result.data[0]["id"]) raises
StoreOutcomes == {"ok", "raise", "raise_after"}

NoResponse == [ep |-> "none", status |-> 0]

----------------------------------------------------------------------------
(* Module import: routers/stats.py 21-34, routers/contact.py 18-31; both   *)
(* routers and main.py read the same process environment                   *)

\* `if not url or not key: supabase_cli = None; else: try create_client`
MakeClient(u, k, create_ok) ==
    IF u = "" \/ k = "" THEN None
    ELSE IF create_ok THEN Client ELSE None

Init ==
    /\ url \in {"", "https://x.supabase.co"}
    /\ key \in {"", "anon-key"}
    /\ environ_url = url
    /\ \E ok_stats, ok_contact \in BOOLEAN :
          /\ ((url = "" \/ key = "") => (ok_stats /\ ok_contact))
          /\ stats_supabase_cli = MakeClient(url, key, ok_stats)
          /\ contact_supabase_cli = MakeClient(url, key, ok_contact)
    /\ now = 0
    /\ visits = <<>>
    /\ events = <<>>
    /\ contact_messages = <<>>
    /\ resp = NoResponse
    /\ health = NoResponse
    /\ summary = [pc |-> "idle"]
    /\ rows = <<>>
    /\ ranked = [pc |-> "off"]
    /\ parsed = [pc |-> "off"]

Tick ==
    /\ now < MaxTime
    /\ now' = now + 1
    /\ UNCHANGED <<config, visits, events, contact_messages, resp, health, summary, rows, ranked, parsed>>

----------------------------------------------------------------------------
(* routers/stats.py: visit and event tracking *)

\* VisitData: page_url and session_id are required, the rest is optional
ValidVisit(visit) ==
    /\ visit.page_url # Absent
    /\ visit.session_id # Absent

\* EventData: session_id, event_type and page_url are required
ValidEvent(event) ==
    /\ event.session_id # Absent
    /\ event.event_type # Absent
    /\ event.page_url # Absent

\* the bot test moved to the front of the chain
device_type_bot_first(ua) ==
    IF ua.is_bot THEN "bot"
    ELSE IF ua.is_mobile THEN "mobile"
    ELSE IF ua.is_tablet THEN "tablet"
    ELSE "desktop"

\* "mobile" if ua.is_mobile else "tablet" if ua.is_tablet else "bot" if ua.is_bot else "desktop"
device_type(ua) ==
    IF ua.is_mobile THEN "mobile"
    ELSE IF ua.is_tablet THEN "tablet"
    ELSE IF ua.is_bot THEN "bot"
    ELSE "desktop"

extract_device_info(ua) ==
    [browser |-> ua.family, os |-> ua.os,
     device_type |-> device_type(ua), is_bot |-> ua.is_bot]

\* the bot test made on the derived device_type instead of is_bot
SkipVisitByDeviceType(device_info) == device_info.device_type = "bot"

\* the `if device_info["is_bot"]` test of track_visit
SkipVisit(device_info) == device_info.is_bot

VisitRecord(visit, ua, device_info) ==
    [session_id  |-> visit.session_id,
     user_agent  |-> ua,
     device_type |-> device_info.device_type,
     browser     |-> device_info.browser,
     page_url    |-> visit.page_url,
     referrer    |-> visit.referrer,
     created_at  |-> now]

\* the guard left out: the handler goes on without a client
NotConfiguredUnchecked(cli) == FALSE

\* `if not supabase_cli`
NotConfigured(cli) == cli = None

\* datetime.now(timezone.utc): a later reading gives a later time
ReadClock ==
    /\ now < MaxTime
    /\ now' = now + 1

\* what a request was and what the store did with it, kept with its response
Request(payload, ua, insert) == [payload |-> payload, ua |-> ua, insert |-> insert]

NoUserAgent == [family |-> "none", os |-> "none", is_mobile |-> FALSE, is_tablet |-> FALSE, is_bot |-> FALSE]

\* the failure surfaced as contact.py surfaces it
VisitTrackingFailedAs500(req) ==
    [ep |-> "track", status |-> 500, req |-> req]

\* track_visit's `except Exception` branch: the request does not fail
VisitTrackingFailed(req) ==
    [ep |-> "track", status |-> 200, message |-> "Visit tracking failed",
     tracked |-> FALSE, req |-> req]

track_visit(visit, ua, outcome) ==
    /\ UNCHANGED <<config, events, contact_messages, health, summary, rows, ranked, parsed>>
    /\ IF ~ValidVisit(visit)
       THEN \* the framework rejects the body before the handler runs
            /\ resp' = [ep |-> "track", status |-> 422, req |-> Request(visit, ua, "none")]
            /\ UNCHANGED <<visits, now>>
       ELSE IF NotConfigured(stats_supabase_cli)
       THEN /\ resp' = [ep |-> "track", status |-> 503, req |-> Request(visit, ua, "none")]
            /\ UNCHANGED <<visits, now>>
       ELSE LET device_info == extract_device_info(ua) IN
            IF SkipVisit(device_info)
            THEN /\ resp' = [ep |-> "track", status |-> 200,
                             message |-> "Bot visit logged", tracked |-> FALSE,
                             req |-> Request(visit, ua, "none")]
                 /\ UNCHANGED <<visits, now>>
            ELSE IF outcome = "raise"
            THEN /\ ReadClock
                 /\ resp' = VisitTrackingFailed(Request(visit, ua, "raise"))
                 /\ UNCHANGED visits
            ELSE IF outcome = "raise_after"
            THEN \* logger.info("visit_tracked", ...) raises: same except branch
                 /\ ReadClock
                 /\ Len(visits) < MaxVisits
                 /\ visits' = Append(visits, VisitRecord(visit, ua, device_info))
                 /\ resp' = VisitTrackingFailed(Request(visit, ua, "raise_after"))
            ELSE /\ ReadClock
                 /\ Len(visits) < MaxVisits
                 /\ visits' = Append(visits, VisitRecord(visit, ua, device_info))
                 /\ resp' = [ep |-> "track", status |-> 200,
                             message |-> "Visit tracked successfully", tracked |-> TRUE,
                             req |-> Request(visit, ua, "ok")]

EventRecord(event) ==
    [session_id |-> event.session_id,
     event_type |-> event.event_type,
     page_url   |-> event.page_url,
     created_at |-> now]

\* track_event's `except Exception` branch
EventTrackingFailed(req) ==
    [ep |-> "event", status |-> 200, message |-> "Event tracking failed",
     tracked |-> FALSE, req |-> req]

track_event(event, outcome) ==
    /\ UNCHANGED <<config, visits, contact_messages, health, summary, rows, ranked, parsed>>
    /\ IF ~ValidEvent(event)
       THEN /\ resp' = [ep |-> "event", status |-> 422,
                        req |-> Request(event, NoUserAgent, "none")]
            /\ UNCHANGED <<events, now>>
       ELSE IF NotConfigured(stats_supabase_cli)
       THEN /\ resp' = [ep |-> "event", status |-> 503,
                        req |-> Request(event, NoUserAgent, "none")]
            /\ UNCHANGED <<events, now>>
       ELSE IF outcome = "raise"
       THEN /\ ReadClock
            /\ resp' = EventTrackingFailed(Request(event, NoUserAgent, "raise"))
            /\ UNCHANGED events
       ELSE IF outcome = "raise_after"
       THEN \* logger.info("event_tracked", ...) raises: same except branch
            /\ ReadClock
            /\ Len(events) < MaxEvents
            /\ events' = Append(events, EventRecord(event))
            /\ resp' = EventTrackingFailed(Request(event, NoUserAgent, "raise_after"))
       ELSE /\ ReadClock
            /\ Len(events) < MaxEvents
            /\ events' = Append(events, EventRecord(event))
            /\ resp' = [ep |-> "event", status |-> 200,
                        message |-> "Event tracked successfully", tracked |-> TRUE,
                        req |-> Request(event, NoUserAgent, "ok")]

VisitInputs ==
    [session_id : Sessions \cup {Absent}, page_url : {"/", Absent}, referrer : {None}]

EventInputs ==
    [session_id : {"s1", Absent}, event_type : {"click", Absent}, page_url : {"/", Absent}]

TrackVisit == \E visit \in VisitInputs, ua \in UserAgents, outcome \in StoreOutcomes :
                  track_visit(visit, ua, outcome)

TrackEvent == \E event \in EventInputs, outcome \in StoreOutcomes :
                  track_event(event, outcome)

NextTrack == TrackVisit \/ TrackEvent

SpecTrack == Init /\ [][NextTrack]_vars

----------------------------------------------------------------------------
(* routers/stats.py: get_summary.  The handler makes five separate store   *)
(* reads; requests served by other workers against the same store may      *)
(* insert between them, so each read is a step of its own.                 *)

MinDays == 1
MaxDays == 365
TopN == 10

\* the lower bound exclusive: gt=1 for ge=1
ValidDaysAboveMin(days) == days > MinDays /\ days <= MaxDays

\* Query(default=30, ge=1, le=365)
ValidDays(days) == days >= MinDays /\ days <= MaxDays

\* .gte("created_at", start_date.isoformat())
Gte(table, start_date) == SelectSeq(table, LAMBDA r : r.created_at >= start_date)

\* counts[k] = counts.get(k, 0) + 1 on a dict, which keeps insertion order:
\* a sequence of <<key, count>> in the order the keys were first met
TallyStep(counts, k) ==
    IF \E i \in 1..Len(counts) : counts[i][1] = k
    THEN [i \in 1..Len(counts) |->
             IF counts[i][1] = k THEN <<k, counts[i][2] + 1>> ELSE counts[i]]
    ELSE Append(counts, <<k, 1>>)

RECURSIVE TallyFrom(_, _, _)
TallyFrom(keys, i, counts) ==
    IF i > Len(keys) THEN counts
    ELSE TallyFrom(keys, i + 1, TallyStep(counts, keys[i]))

Tally(keys) == TallyFrom(keys, 1, <<>>)

\* an ascending sort reversed: items of equal count end up in reverse order
InsertDescTiesReversed(sorted, item) ==
    LET p == Cardinality({i \in 1..Len(sorted) : sorted[i][2] > item[2]})
    IN  SubSeq(sorted, 1, p) \o <<item>> \o SubSeq(sorted, p + 1, Len(sorted))

\* sorted(items, key=lambda x: x[1], reverse=True): stable, so items of equal
\* count keep their order
InsertDesc(sorted, item) ==
    LET p == Cardinality({i \in 1..Len(sorted) : sorted[i][2] >= item[2]})
    IN  SubSeq(sorted, 1, p) \o <<item>> \o SubSeq(sorted, p + 1, Len(sorted))

RECURSIVE SortedFrom(_, _, _)
SortedFrom(items, i, sorted) ==
    IF i > Len(items) THEN sorted
    ELSE SortedFrom(items, i + 1, InsertDesc(sorted, items[i]))

SortedDesc(items) == SortedFrom(items, 1, <<>>)

\* [:10]
Top(items) == SubSeq(items, 1, IF Len(items) < TopN THEN Len(items) ELSE TopN)

\* visit.get("device_type", "unknown")
DeviceKey(r) == IF r.device_type = Absent THEN "unknown" ELSE r.device_type

\* visit.get("page_url", "unknown")
PageKey(r) == IF r.page_url = Absent THEN "unknown" ELSE r.page_url

\* only a null referrer replaced: `"direct" if referrer is None`
ReferrerKeyNullOnly(r) == IF r.referrer \in {Absent, None} THEN "direct" ELSE r.referrer

\* visit.get("referrer") or "direct"
ReferrerKey(r) == IF r.referrer \in {Absent, None, ""} THEN "direct" ELSE r.referrer

DeviceKeys(data) == [i \in 1..Len(data) |-> DeviceKey(data[i])]
PageKeys(data) == [i \in 1..Len(data) |-> PageKey(data[i])]
ReferrerKeys(data) == [i \in 1..Len(data) |-> ReferrerKey(data[i])]

unique_sessions(data) == Cardinality({data[i].session_id : i \in 1..Len(data)})
device_counts(data) == Tally(DeviceKeys(data))
page_counts(data) == Tally(PageKeys(data))
referrer_counts(data) == Tally(ReferrerKeys(data))
top_pages(data) == Top(SortedDesc(page_counts(data)))
top_referrers(data) == Top(SortedDesc(referrer_counts(data)))

SummaryFree == <<config, now, visits, events, contact_messages, resp, health, rows, ranked, parsed>>

\* timedelta(days=days), in units of the clock
timedelta(days) == days * TicksPerDay

get_summary(days) ==
    /\ summary.pc \in {"idle", "done"}
    /\ UNCHANGED <<config, visits, events, contact_messages, resp, health, rows, ranked, parsed>>
    /\ IF ~ValidDays(days)
       THEN /\ summary' = [pc |-> "done", days |-> days, status |-> 422]
            /\ UNCHANGED now
       ELSE IF NotConfigured(stats_supabase_cli)
       THEN /\ summary' = [pc |-> "done", days |-> days, status |-> 503]
            /\ UNCHANGED now
       ELSE /\ ReadClock
            /\ summary' = [pc |-> "count", days |-> days,
                           end_date |-> now, start_date |-> now - timedelta(days)]

QueryCount ==
    /\ summary.pc = "count"
    /\ UNCHANGED SummaryFree
    /\ summary' = [pc |-> "sessions", days |-> summary.days,
                   end_date |-> summary.end_date, start_date |-> summary.start_date,
                   visits_result |-> Gte(visits, summary.start_date)]

QuerySessions ==
    /\ summary.pc = "sessions"
    /\ UNCHANGED SummaryFree
    /\ summary' = [pc |-> "devices", days |-> summary.days,
                   end_date |-> summary.end_date, start_date |-> summary.start_date,
                   visits_result |-> summary.visits_result,
                   sessions_result |-> Gte(visits, summary.start_date)]

QueryDevices ==
    /\ summary.pc = "devices"
    /\ UNCHANGED SummaryFree
    /\ summary' = [pc |-> "pages", days |-> summary.days,
                   end_date |-> summary.end_date, start_date |-> summary.start_date,
                   visits_result |-> summary.visits_result,
                   sessions_result |-> summary.sessions_result,
                   device_result |-> Gte(visits, summary.start_date)]

QueryPages ==
    /\ summary.pc = "pages"
    /\ UNCHANGED SummaryFree
    /\ summary' = [pc |-> "referrers", days |-> summary.days,
                   end_date |-> summary.end_date, start_date |-> summary.start_date,
                   visits_result |-> summary.visits_result,
                   sessions_result |-> summary.sessions_result,
                   device_result |-> summary.device_result,
                   pages_result |-> Gte(visits, summary.start_date)]

SummaryReport(s, referrer_result) ==
    [period_days     |-> s.days,
     start_date      |-> s.start_date,
     end_date        |-> s.end_date,
     total_visits    |-> Len(s.visits_result),
     unique_visitors |-> unique_sessions(s.sessions_result),
     devices         |-> device_counts(s.device_result),
     top_pages       |-> top_pages(s.pages_result),
     top_referrers   |-> top_referrers(referrer_result)]

QueryReferrers ==
    /\ summary.pc = "referrers"
    /\ UNCHANGED SummaryFree
    /\ LET referrer_result == Gte(visits, summary.start_date) IN
       summary' = [pc |-> "done", days |-> summary.days, status |-> 200,
                   end_date |-> summary.end_date, start_date |-> summary.start_date,
                   visits_result |-> summary.visits_result,
                   sessions_result |-> summary.sessions_result,
                   device_result |-> summary.device_result,
                   pages_result |-> summary.pages_result,
                   referrer_result |-> referrer_result,
                   report |-> SummaryReport(summary, referrer_result)]

\* a store read raises: `except Exception` answers 500
QueryRaise ==
    /\ summary.pc \in {"count", "sessions", "devices", "pages", "referrers"}
    /\ UNCHANGED SummaryFree
    /\ summary' = [pc |-> "done", days |-> summary.days, status |-> 500]

DaysInputs == {MinDays - 1, MinDays, MaxDays, MaxDays + 1}

GetSummary == \E days \in DaysInputs : get_summary(days)

SummaryVisitInputs ==
    { <<[session_id |-> "s1", page_url |-> "/",     referrer |-> None], "Chrome">>,
      <<[session_id |-> "s2", page_url |-> "/blog", referrer |-> "https://g.example"], "Mobile Safari">>,
      <<[session_id |-> "s1", page_url |-> "/",     referrer |-> None], "Googlebot">> }

TrackVisitDuringSummary ==
    \E input \in SummaryVisitInputs, ua \in UserAgents :
        /\ ua.family = input[2]
        /\ track_visit(input[1], ua, "ok")

NextSummary ==
    \/ Tick
    \/ TrackVisitDuringSummary
    \/ GetSummary
    \/ QueryCount
    \/ QuerySessions
    \/ QueryDevices
    \/ QueryPages
    \/ QueryReferrers
    \/ QueryRaise

SpecSummary == Init /\ [][NextSummary]_vars

----------------------------------------------------------------------------
(* routers/contact.py *)

NameMin == 1
NameMax == 100
SubjectMax == 200
MessageMin == 10
MessageMax == 5000

\* ContactMessage; a payload is given by the lengths of its fields, the
\* optional subject as a sequence of no or one length
ValidContact(contact) ==
    /\ contact.name >= NameMin /\ contact.name <= NameMax
    /\ contact.email_ok
    /\ \A i \in 1..Len(contact.subject) : contact.subject[i] <= SubjectMax
    /\ contact.message >= MessageMin /\ contact.message <= MessageMax

\* contact.subject or "No subject"
SubjectOrDefault(contact) ==
    IF contact.subject = <<>> \/ contact.subject = <<0>>
    THEN "No subject" ELSE "subject"

\* the store assigns the id of the row
ContactRecord(contact) ==
    [id         |-> ToString(Len(contact_messages) + 1),
     name       |-> contact.name,
     subject    |-> SubjectOrDefault(contact),
     message    |-> contact.message,
     created_at |-> now]

\* the id of the stored row never read from the reply
ResultIdDropped(data) == None

\* result.data[0]["id"] if result.data else None
ResultId(data) == IF data # <<>> THEN data[1].id ELSE None

\* submit_contact's `except Exception` branch
ContactSubmitFailed(req) == [ep |-> "submit", status |-> 500, req |-> req]

\* outcome: the insert raises ("raise"), or completes and returns the
\* inserted row ("ok"), or completes and returns no row ("ok_empty"), or
\* completes and a later statement of the try block raises ("raise_after")
submit_contact(contact, outcome) ==
    /\ UNCHANGED <<config, visits, events, health, summary, rows, ranked, parsed>>
    /\ IF ~ValidContact(contact)
       THEN /\ resp' = [ep |-> "submit", status |-> 422,
                        req |-> Request(contact, NoUserAgent, "none")]
            /\ UNCHANGED <<contact_messages, now>>
       ELSE IF NotConfigured(contact_supabase_cli)
       THEN /\ resp' = [ep |-> "submit", status |-> 503,
                        req |-> Request(contact, NoUserAgent, "none")]
            /\ UNCHANGED <<contact_messages, now>>
       ELSE IF outcome = "raise"
       THEN /\ ReadClock
            /\ resp' = ContactSubmitFailed(Request(contact, NoUserAgent, "raise"))
            /\ UNCHANGED contact_messages
       ELSE IF outcome = "raise_after"
       THEN \* logger.info(...) or result.data[0]["id"] raises: same except branch
            /\ ReadClock
            /\ Len(contact_messages) < MaxContacts
            /\ contact_messages' = Append(contact_messages, ContactRecord(contact))
            /\ resp' = ContactSubmitFailed(Request(contact, NoUserAgent, "raise_after"))
       ELSE LET row == ContactRecord(contact)
                data == IF outcome = "ok" THEN <<row>> ELSE <<>>
            IN  /\ ReadClock
                /\ Len(contact_messages) < MaxContacts
                /\ contact_messages' = Append(contact_messages, row)
                /\ resp' = [ep |-> "submit", status |-> 200, success |-> TRUE,
                            id |-> ResultId(data),
                            req |-> Request(contact, NoUserAgent, outcome)]

\* a valid payload, and the payloads that differ from it in one field
ContactBase ==
    [name |-> NameMin, email_ok |-> TRUE, subject |-> <<>>, message |-> MessageMin]

ContactInputs ==
    { [ContactBase EXCEPT !.name = n] : n \in {NameMin - 1, NameMin, NameMax, NameMax + 1} }
    \cup { [ContactBase EXCEPT !.email_ok = e] : e \in BOOLEAN }
    \cup { [ContactBase EXCEPT !.subject = x] :
               x \in {<<>>, <<0>>, <<SubjectMax>>, <<SubjectMax + 1>>} }
    \cup { [ContactBase EXCEPT !.message = m] :
               m \in {MessageMin - 1, MessageMin, MessageMax, MessageMax + 1} }

ContactOutcomes == {"ok", "ok_empty", "raise", "raise_after"}

SubmitContact == \E contact \in ContactInputs, outcome \in ContactOutcomes :
                     submit_contact(contact, outcome)

contact_health ==
    /\ health' = [ep |-> "contact_health",
                  status |-> IF contact_supabase_cli # None THEN "healthy" ELSE "degraded",
                  supabase_configured |-> contact_supabase_cli # None]
    /\ UNCHANGED <<config, now, visits, events, contact_messages, resp, summary, rows, ranked, parsed>>

NextContact == SubmitContact \/ contact_health

SpecContact == Init /\ [][NextContact]_vars

----------------------------------------------------------------------------
(* Health endpoints: routers/stats.py stats_health, main.py health_check *)

stats_health ==
    /\ health' = [ep |-> "stats_health",
                  status |-> IF stats_supabase_cli # None THEN "healthy" ELSE "degraded",
                  supabase_configured |-> stats_supabase_cli # None]
    /\ UNCHANGED <<config, now, visits, events, contact_messages, resp, summary, rows, ranked, parsed>>

\* supabase_configured = bool(os.getenv("SUPABASE_URL", ""))
health_check ==
    /\ health' = [ep |-> "api_health", status |-> "healthy",
                  supabase |-> IF environ_url # "" THEN "configured" ELSE "not_configured"]
    /\ UNCHANGED <<config, now, visits, events, contact_messages, resp, summary, rows, ranked, parsed>>

\* one well-formed VisitData and one well-formed EventData
VisitBase == [session_id |-> "s1", page_url |-> "/", referrer |-> None]

EventBase == [session_id |-> "s1", event_type |-> "click", page_url |-> "/"]

DefaultDays == 30

NextHealth ==
    \/ contact_health
    \/ stats_health
    \/ health_check
    \/ \E ua \in UserAgents, outcome \in StoreOutcomes :
          track_visit(VisitBase, ua, outcome)
    \/ \E outcome \in StoreOutcomes :
          track_event(EventBase, outcome)
    \/ \E outcome \in ContactOutcomes :
          submit_contact(ContactBase, outcome)
    \/ get_summary(DefaultDays)
    \/ QueryCount
    \/ QuerySessions
    \/ QueryDevices
    \/ QueryPages
    \/ QueryReferrers
    \/ QueryRaise

SpecHealth == Init /\ [][NextHealth]_vars

----------------------------------------------------------------------------
(* The three write endpoints on their own: track_visit, track_event and    *)
(* submit_contact, each with one well-formed payload and every outcome of  *)
(* its insert.                                                             *)

WriteVisit ==
    \E ua \in UserAgents, outcome \in StoreOutcomes :
        track_visit(VisitBase, ua, outcome)

WriteEvent ==
    \E outcome \in StoreOutcomes :
        track_event(EventBase, outcome)

WriteContact ==
    \E outcome \in ContactOutcomes :
        submit_contact(ContactBase, outcome)

NextWrite == WriteVisit \/ WriteEvent \/ WriteContact

SpecWrite == Init /\ [][NextWrite]_vars

----------------------------------------------------------------------------
(* The aggregation of get_summary (routers/stats.py 289-307) on its own:   *)
(* the rows a query returned are drawn from two families, and the same     *)
(* operators the summary uses are applied to them.                         *)

CountChoices == {1, 2}

\* the i-th key met; the key after the first TopN has no referrer
KeyRow(i) ==
    [page_url |-> "/p" \o ToString(i),
     referrer |-> IF i = TopN + 1 THEN None ELSE "https://r" \o ToString(i) \o ".example"]

\* the keys 1..Len(c) in this order, key i occurring c[i] times: every key
\* once, then once more every key that occurs at least twice, and so on
RECURSIVE RoundsFrom(_, _)
RoundsFrom(c, r) ==
    LET again == SelectSeq([i \in 1..Len(c) |-> i], LAMBDA i : c[i] >= r)
    IN  IF again = <<>> THEN <<>>
        ELSE [j \in 1..Len(again) |-> KeyRow(again[j])] \o RoundsFrom(c, r + 1)

ProfileRows == { RoundsFrom(c, 1) : c \in UNION { [1..k -> CountChoices] : k \in 0..MaxKeys } }

FreeRows ==
    UNION { [1..n -> [page_url : Pages, referrer : Referrers \cup {Absent}]] : n \in 0..MaxRows }

InitRank ==
    /\ url = "https://x.supabase.co"
    /\ key = "anon-key"
    /\ environ_url = url
    /\ stats_supabase_cli = MakeClient(url, key, TRUE)
    /\ contact_supabase_cli = MakeClient(url, key, TRUE)
    /\ now = 0
    /\ visits = <<>>
    /\ events = <<>>
    /\ contact_messages = <<>>
    /\ resp = NoResponse
    /\ health = NoResponse
    /\ summary = [pc |-> "idle"]
    /\ rows \in ProfileRows \cup FreeRows
    /\ ranked = [pc |-> "fetched"]
    /\ parsed = [pc |-> "off"]

RankFree == <<config, now, visits, events, contact_messages, resp, health, summary, rows, parsed>>

RankPages ==
    /\ ranked.pc = "fetched"
    /\ ranked' = [pc |-> "pages",
                  page_counts |-> page_counts(rows),
                  top_pages |-> top_pages(rows)]
    /\ UNCHANGED RankFree

RankReferrers ==
    /\ ranked.pc = "pages"
    /\ ranked' = [pc |-> "done",
                  page_counts |-> ranked.page_counts,
                  top_pages |-> ranked.top_pages,
                  referrer_counts |-> referrer_counts(rows),
                  top_referrers |-> top_referrers(rows)]
    /\ UNCHANGED RankFree

NextRank == RankPages \/ RankReferrers

SpecRank == InitRank /\ [][NextRank]_vars

----------------------------------------------------------------------------
(* extract_device_info (routers/stats.py 62-77) on its own, applied to     *)
(* every combination of the flags a parsed user agent can carry.           *)

ParsedUserAgents ==
    [family : {"Chrome", "Mobile Safari", "Googlebot", "Other"},
     os : {"Windows", "iOS", "Other"},
     is_mobile : BOOLEAN, is_tablet : BOOLEAN, is_bot : BOOLEAN]

InitDevice ==
    /\ url = "https://x.supabase.co"
    /\ key = "anon-key"
    /\ environ_url = url
    /\ stats_supabase_cli = MakeClient(url, key, TRUE)
    /\ contact_supabase_cli = MakeClient(url, key, TRUE)
    /\ now = 0
    /\ visits = <<>>
    /\ events = <<>>
    /\ contact_messages = <<>>
    /\ resp = NoResponse
    /\ health = NoResponse
    /\ summary = [pc |-> "idle"]
    /\ rows = <<>>
    /\ ranked = [pc |-> "off"]
    /\ \E ua \in ParsedUserAgents : parsed = [pc |-> "parsed", ua |-> ua]

ExtractDeviceInfo ==
    /\ parsed.pc = "parsed"
    /\ parsed' = [pc |-> "done", ua |-> parsed.ua,
                  device_info |-> extract_device_info(parsed.ua)]
    /\ UNCHANGED <<config, now, visits, events, contact_messages, resp, health,
                   summary, rows, ranked>>

NextDevice == ExtractDeviceInfo

SpecDevice == InitDevice /\ [][NextDevice]_vars

----------------------------------------------------------------------------
(* The whole service.  The handlers meet only in the store: the contact    *)
(* table is written by submit_contact alone, the events table by           *)
(* track_event alone, the visits table by track_visit and read by          *)
(* get_summary.  SpecTrack, SpecSummary, SpecContact and SpecHealth are     *)
(* the parts of this composition that TLC exhausts.                        *)

Next ==
    \/ Tick
    \/ TrackVisit
    \/ TrackEvent
    \/ TrackVisitDuringSummary
    \/ GetSummary
    \/ QueryCount
    \/ QuerySessions
    \/ QueryDevices
    \/ QueryPages
    \/ QueryReferrers
    \/ QueryRaise
    \/ SubmitContact
    \/ contact_health
    \/ stats_health
    \/ health_check

Spec == Init /\ [][Next]_vars

----------------------------------------------------------------------------
(* Properties *)

\* a payload carries every required field
Complete(payload) == \A f \in DOMAIN payload : payload[f] # Absent

Tracking == resp.ep \in {"track", "event"}

\* C1, as stated: every request to POST /api/stats/track or /api/stats/event
\* made while the store client is unconfigured is answered 503, whether its
\* payload is valid or not.
C1_Unconfigured503AnyPayload ==
    (Tracking /\ stats_supabase_cli = None) => resp.status = 503

\* C1, amended: while the store client is unconfigured, a tracking request
\* with a valid payload is answered 503 and one with an invalid payload is
\* answered 422, the validation error, and nothing is stored.
C1_Unconfigured503ValidPayload ==
    (Tracking /\ stats_supabase_cli = None) =>
        /\ resp.status = (IF Complete(resp.req.payload) THEN 503 ELSE 422)
        /\ visits = <<>> /\ events = <<>>

C1_Witness ==
    /\ stats_supabase_cli = None
    /\ resp.ep = "track"
    /\ Complete(resp.req.payload)
    /\ resp.status = 503

\* C2: a valid visit or event whose insert raises, the store being
\* configured, is answered 200 with tracked = false, never 5xx.
C2_InsertFailureIsSoft ==
    (Tracking /\ resp.req.insert = "raise") =>
        /\ Complete(resp.req.payload)
        /\ stats_supabase_cli # None
        /\ resp.status = 200
        /\ resp.tracked = FALSE

C2_Witness ==
    /\ resp.ep = "event"
    /\ resp.req.insert = "raise"
    /\ resp.status = 200
    /\ resp.tracked = FALSE

\* C3: a visit whose user agent is_bot is never answered tracked = true, is
\* answered 200 with tracked = false when it reaches the handler's bot test,
\* causes no insert, and no row of the visits table comes from such a
\* request, whatever device_type it derives.
C3_BotsNotPersisted ==
    /\ (resp.ep = "track" /\ resp.req.ua.is_bot) =>
          /\ resp.req.insert = "none"
          /\ resp.status \in {200, 422, 503}
          /\ resp.status = 200 => resp.tracked = FALSE
          /\ (Complete(resp.req.payload) /\ stats_supabase_cli # None) => resp.status = 200
    /\ \A i \in 1..Len(visits) :
          /\ ~visits[i].user_agent.is_bot
          /\ visits[i].device_type # "bot"

C3_Witness ==
    /\ resp.ep = "track"
    /\ resp.req.ua.is_bot
    /\ resp.req.ua.is_mobile
    /\ resp.status = 200
    /\ resp.tracked = FALSE
    /\ Len(visits) = 1

\* a contact payload that meets every constraint of ContactMessage
ContactOk(c) ==
    /\ c.name \in 1..100
    /\ c.email_ok
    /\ (c.subject = <<>> \/ c.subject[1] <= 200)
    /\ c.message \in 10..5000

\* C4, as stated: a valid ContactMessage gets a 200 with success = true and
\* a non-null id when the store accepts the insert, a 503 when the store is
\* unconfigured, a 500 when the insert fails, and never a 200 with
\* success = false.
C4_SuccessHasId ==
    (resp.ep = "submit" /\ ContactOk(resp.req.payload)) =>
        /\ resp.status \in {200, 500, 503}
        /\ contact_supabase_cli = None <=> resp.status = 503
        /\ resp.req.insert = "raise" <=> resp.status = 500
        /\ resp.req.insert \in {"ok", "ok_empty"} <=> resp.status = 200
        /\ resp.status = 200 => (resp.success = TRUE /\ resp.id # None)

\* C4, amended: as stated, except that the id of the 200 response is the id
\* the store gave the row when the store's reply carries the row, and null
\* when the reply carries no row; and that the 500 is also the answer when
\* a statement after the completed insert raises (C12).
C4_SuccessIdIfReturned ==
    (resp.ep = "submit" /\ ContactOk(resp.req.payload)) =>
        /\ resp.status \in {200, 500, 503}
        /\ contact_supabase_cli = None <=> resp.status = 503
        /\ resp.req.insert \in {"raise", "raise_after"} <=> resp.status = 500
        /\ resp.req.insert \in {"ok", "ok_empty"} <=> resp.status = 200
        /\ resp.status = 200 =>
              /\ resp.success = TRUE
              /\ contact_messages # <<>>
              /\ resp.id = (IF resp.req.insert = "ok"
                            THEN contact_messages[Len(contact_messages)].id ELSE None)
              /\ contact_messages[Len(contact_messages)].id # None

C4_Witness ==
    /\ resp.ep = "submit"
    /\ ContactOk(resp.req.payload)
    /\ resp.req.insert = "ok_empty"
    /\ resp.status = 200
    /\ resp.success = TRUE
    /\ resp.id = None
    /\ Len(contact_messages) = 1

Reported == summary.pc = "done" /\ summary.status = 200

\* C5: every SummaryReport has unique_visitors <= total_visits, also when
\* visits are inserted between the summary's count query and its session_id
\* query.
C5_UniqueAtMostTotal ==
    Reported => summary.report.unique_visitors <= summary.report.total_visits

\* the rows the five queries of a finished summary returned
Fetched ==
    <<summary.visits_result, summary.sessions_result, summary.device_result,
      summary.pages_result, summary.referrer_result>>

\* C7: every row a SummaryReport counts lies in the window the report
\* gives: start_date <= created_at < end_date.
C7_CountedInWindow ==
    Reported =>
        \A q \in 1..Len(Fetched) : \A i \in 1..Len(Fetched[q]) :
            /\ summary.report.start_date <= Fetched[q][i].created_at
            /\ Fetched[q][i].created_at < summary.report.end_date

\* C8: GET /api/stats/summary answers the validation error 422 exactly for
\* days outside 1..365: days = 0 and days = 366 are rejected, days = 1 and
\* days = 365 are accepted and, the store being configured, go on to the
\* queries.
C8_DaysRange ==
    summary.pc # "idle" =>
        /\ summary.days \in {0, 366} => (summary.pc = "done" /\ summary.status = 422)
        /\ summary.days \in {1, 365} =>
              /\ summary.pc = "done" => summary.status # 422
              /\ stats_supabase_cli = None <=> (summary.pc = "done" /\ summary.status = 503)
        /\ (summary.pc = "done" /\ summary.status = 422) <=> ~(summary.days \in 1..365)

C8_Witness ==
    /\ summary.pc = "sessions"
    /\ summary.days = 1
    /\ Len(visits) = 2
    /\ Len(summary.visits_result) = 1

\* how often a key occurs in a sequence of keys, and where it occurs first
Occurrences(keys, k) == Cardinality({i \in 1..Len(keys) : keys[i] = k})
FirstAt(keys, k) == CHOOSE i \in 1..Len(keys) : keys[i] = k /\ \A j \in 1..(i - 1) : keys[j] # k
Distinct(keys) == {keys[i] : i \in 1..Len(keys)}

\* a ranks before b: a larger count, or the same count and met earlier
RanksBefore(keys, a, b) ==
    \/ Occurrences(keys, a) > Occurrences(keys, b)
    \/ /\ Occurrences(keys, a) = Occurrences(keys, b)
       /\ FirstAt(keys, a) < FirstAt(keys, b)

PlaceOf(keys, k) == Cardinality({a \in Distinct(keys) : RanksBefore(keys, a, k)}) + 1

\* top is the first 10 of the keys ranked by count, ties in the order met
IsTop10(top, keys) ==
    /\ Len(top) <= 10
    /\ Len(top) = (IF Cardinality(Distinct(keys)) < 10 THEN Cardinality(Distinct(keys)) ELSE 10)
    /\ \A i \in 1..Len(top) :
          /\ top[i][1] \in Distinct(keys)
          /\ top[i][2] = Occurrences(keys, top[i][1])
          /\ PlaceOf(keys, top[i][1]) = i
    /\ \A i, j \in 1..Len(top) : i < j =>
          /\ top[i][2] >= top[j][2]
          /\ top[i][2] = top[j][2] => FirstAt(keys, top[i][1]) < FirstAt(keys, top[j][1])
    /\ \A k \in Distinct(keys) :
          (\A i \in 1..Len(top) : top[i][1] # k) =>
              \A i \in 1..Len(top) : Occurrences(keys, k) <= top[i][2]

PageUrls == [i \in 1..Len(rows) |-> rows[i].page_url]
ReferrersOrDirect ==
    [i \in 1..Len(rows) |->
        IF rows[i].referrer \in {Absent, None, ""} THEN "direct" ELSE rows[i].referrer]

\* C6: top_pages and top_referrers each hold at most 10 entries, ordered by
\* count non-increasing with entries of equal count in the order their key
\* was first met in the fetched rows, and are exactly the first 10 of that
\* ordering.
C6_TopTenStable ==
    /\ ranked.pc \in {"pages", "done"} => IsTop10(ranked.top_pages, PageUrls)
    /\ ranked.pc = "done" => IsTop10(ranked.top_referrers, ReferrersOrDirect)

\* eleven keys or more, a tie inside the list and a tie across the cut
C6_Witness ==
    /\ ranked.pc = "done"
    /\ Cardinality(Distinct(PageUrls)) > 10
    /\ Len(ranked.top_pages) = 10
    /\ ranked.top_pages[1][2] = 2
    /\ ranked.top_pages[9][2] = 1
    /\ ranked.top_pages[10][2] = 1
    /\ \E k \in Distinct(PageUrls) :
          /\ \A i \in 1..10 : ranked.top_pages[i][1] # k
          /\ Occurrences(PageUrls, k) = 1

RowsWithReferrerIn(values) == Cardinality({i \in 1..Len(rows) : rows[i].referrer \in values})

DirectCountIs(n) ==
    /\ \A i \in 1..Len(ranked.referrer_counts) :
          /\ ~(ranked.referrer_counts[i][1] \in {Absent, None, ""})
          /\ ranked.referrer_counts[i][1] = "direct" => ranked.referrer_counts[i][2] = n
    /\ n > 0 => \E i \in 1..Len(ranked.referrer_counts) : ranked.referrer_counts[i][1] = "direct"
    /\ \A i \in 1..Len(ranked.top_referrers) :
          /\ ~(ranked.top_referrers[i][1] \in {Absent, None, ""})
          /\ ranked.top_referrers[i][1] = "direct" => ranked.top_referrers[i][2] = n

\* C9, as stated: every fetched row whose referrer is missing or null is
\* counted under "direct", so the count of "direct" equals the number of
\* fetched rows with no referrer, and no entry has a null source.
C9_DirectCountsNullReferrers ==
    ranked.pc = "done" => DirectCountIs(RowsWithReferrerIn({Absent, None}))

\* C9, amended: the count of "direct" equals the number of fetched rows
\* whose referrer is missing, null, the empty string or the literal
\* "direct", and no entry has a null or empty source.
C9_DirectCountsFalsyReferrers ==
    ranked.pc = "done" => DirectCountIs(RowsWithReferrerIn({Absent, None, "", "direct"}))

\* the two null referrers of the example, next to an empty referrer
C9_Witness ==
    /\ ranked.pc = "done"
    /\ RowsWithReferrerIn({None}) = 2
    /\ RowsWithReferrerIn({""}) = 1
    /\ \E i \in 1..Len(ranked.top_referrers) : ranked.top_referrers[i] = <<"direct", 3>>

\* what the last health response says of the store
ReportsUnconfigured ==
    IF health.ep = "api_health" THEN health.supabase = "not_configured"
    ELSE health.supabase_configured = FALSE /\ health.status = "degraded"

\* the last answers of the endpoints a health endpoint speaks for
ServiceAnswers ==
    (IF health.ep \in {"contact_health", "api_health"} /\ resp.ep = "submit"
     THEN {resp.status} ELSE {})
    \cup (IF health.ep \in {"stats_health", "api_health"} /\ Tracking
          THEN {resp.status} ELSE {})
    \cup (IF health.ep \in {"stats_health", "api_health"} /\ summary.pc = "done"
          THEN {summary.status} ELSE {})

\* C10: whatever the store URL and key are, /api/contact/health,
\* /api/stats/health and the supabase component of /api/health report the
\* store as not configured exactly when submit_contact, track_visit,
\* track_event and get_summary answer 503.
C10_HealthMatchesService ==
    health.ep # "none" =>
        \A status \in ServiceAnswers : ReportsUnconfigured <=> status = 503

\* C11: device_type is the first match in the order mobile, tablet, bot,
\* desktop over the flags is_mobile, is_tablet, is_bot, for every
\* combination of the three; a user agent flagged mobile and bot is
\* "mobile", and is_bot is handed on as the parser gave it.
C11_DeviceTypePrecedence ==
    parsed.pc = "done" =>
        LET ua == parsed.ua
            dt == parsed.device_info.device_type
        IN  /\ ua.is_mobile => dt = "mobile"
            /\ (~ua.is_mobile /\ ua.is_tablet) => dt = "tablet"
            /\ (~ua.is_mobile /\ ~ua.is_tablet /\ ua.is_bot) => dt = "bot"
            /\ (~ua.is_mobile /\ ~ua.is_tablet /\ ~ua.is_bot) => dt = "desktop"
            /\ parsed.device_info.is_bot = ua.is_bot

C11_Witness ==
    /\ parsed.pc = "done"
    /\ parsed.ua.is_mobile /\ parsed.ua.is_bot
    /\ parsed.device_info.device_type = "mobile"
    /\ parsed.device_info.is_bot = TRUE

\* C12: the response of a write endpoint agrees with what the request
\* stored: track_visit and track_event answer tracked = true exactly when
\* the request added its row, submit_contact answers 500 only when its
\* record was not added, and a request adds at most one row.
C12_ResponseAgreesWithStore ==
    [][ /\ Len(visits') - Len(visits) \in {0, 1}
        /\ Len(events') - Len(events) \in {0, 1}
        /\ Len(contact_messages') - Len(contact_messages) \in {0, 1}
        /\ (resp'.ep = "track" /\ resp'.status = 200) =>
              (resp'.tracked <=> visits' # visits)
        /\ (resp'.ep = "event" /\ resp'.status = 200) =>
              (resp'.tracked <=> events' # events)
        /\ (resp'.ep = "submit" /\ resp'.status = 500) =>
              contact_messages' = contact_messages ]_vars

====
